---- MODULE Spec2Model ----
(***************************************************************************)
(* Model of life3biotech/aisg:                                             *)
(*   - PipelineConfig.__init__ loading the pconst constants registry       *)
(*     (src/life3_biotech/config.py),                                      *)
(*   - PeekingDuckPipeline construction and predict / predict_custom       *)
(*     (src/inference/inference_pipeline.py),                              *)
(*   - EfficientDetPipeline.generate_annotations                           *)
(*     (src/life3_biotech/data_prep/preprocess_efficientdet.py).           *)
(***************************************************************************)
EXTENDS Integers, Sequences, FiniteSets, TLC

VARIABLES
    reg,        \* pconst registry: constant name -> registered value
    cfgParams,  \* params of the last PipelineConfig(params, logger) call
    cfgErr,     \* outcome of the last PipelineConfig call
    cfgCalls,   \* number of PipelineConfig calls made
    \* -- inference_pipeline.py
    self,       \* fields of the PeekingDuckPipeline last constructed
    obtained,   \* TRUE when its constructor returned normally
    lastOp,     \* the last operation run on it
    exc,        \* exception raised by the last operation, "none" if none
    nodeLog,    \* nodes instantiated by the last operation, in order
    pc,         \* position of the predict / predict_custom call
    fn,         \* which of the two is running
    image_list, \* its input: the image paths, in order
    save_output_option,
    output_path,
    idx,        \* next element of the for loop
    pred_outputs,
    pred_outputs_df,
    result,     \* the returned table
    runLog,     \* model_node.run calls of the current call, in order
    files,      \* file system: path -> content
    \* -- preprocess_efficientdet.py
    annArgs,    \* arguments of the last generate_annotations call
    annExc,     \* exception it raised, "none" if it returned
    annLogged   \* TRUE when it logged the missing-file error

cfgVars == <<reg, cfgParams, cfgErr, cfgCalls>>

objVars == <<self, obtained, lastOp, exc, nodeLog>>

callVars == <<pc, fn, image_list, save_output_option, output_path, idx,
              pred_outputs, pred_outputs_df, result, runLog>>

vars == <<reg, cfgParams, cfgErr, cfgCalls, self, obtained, lastOp, exc, nodeLog,
          pc, fn, image_list, save_output_option, output_path, idx,
          pred_outputs, pred_outputs_df, result, runLog, files,
          annArgs, annExc, annLogged>>

annVars == <<annArgs, annExc, annLogged>>

----------------------------------------------------------------------------
(* Bounds *)

MaxConfigCalls == 2     \* PipelineConfig calls in one process

MaxImages == 2          \* length of an image list / dataset

MaxRows == 2            \* rows of an annotations DataFrame

----------------------------------------------------------------------------
(* config.py : the assignments of PipelineConfig.__init__, in source order. *)
(* kind: "req"   const.NAME = section[key]            (KeyError if absent)   *)
(*       "opt"   if key in section: const.NAME = section[key]                *)
(*       "none"  as "opt", with  else: const.NAME = None                     *)
(*       "tuple" if key in section: const.NAME = tuple(section[key])         *)

St(sec, key, name, kind) == [sec |-> sec, key |-> key, name |-> name, kind |-> kind]

DataPrepAssigns == <<
    St("data_prep", "data_subdirs_paths", "DATA_SUBDIRS_PATH_LIST", "req"),
    St("data_prep", "processed_data_path", "PROCESSED_DATA_PATH", "req"),
    St("data_prep", "interim_data_path", "INTERIM_DATA_PATH", "req"),
    St("data_prep", "raw_data_path", "RAW_DATA_PATH", "req"),
    St("data_prep", "load_data", "LOAD_DATA", "req"),
    St("data_prep", "models", "MODELS", "req"),
    St("data_prep", "annotations_subdir", "ANNOTATIONS_SUBDIR", "req"),
    St("data_prep", "images_subdir", "IMAGES_SUBDIR", "req"),
    St("data_prep", "coco_annotations_filename", "COCO_ANNOTATION_FILENAME", "req"),
    St("data_prep", "class_map", "CLASS_MAP", "req"),
    St("data_prep", "remap_classes", "REMAP_CLASSES", "req"),
    St("data_prep", "class_remapping", "CLASS_REMAPPING", "req"),
    St("data_prep", "excluded_images", "EXCLUDED_IMAGES", "req"),
    St("data_prep", "combined_annotations_filename", "COMBINED_ANNOTATIONS_FILENAME", "req"),
    St("data_prep", "accepted_image_formats", "ACCEPTED_IMAGE_FORMATS", "req"),
    St("data_prep", "tile_data_dir_paths", "TILE_DATA_DIR_PATHS", "req"),
    St("data_prep", "tile_slice_height", "TILE_SLICE_HEIGHT", "req"),
    St("data_prep", "tile_slice_width", "TILE_SLICE_WIDTH", "req"),
    St("data_prep", "tile_overlap_height_ratio", "TILE_OVERLAP_HEIGHT_RATIO", "req"),
    St("data_prep", "tile_overlap_width_ratio", "TILE_OVERLAP_WIDTH_RATIO", "req"),
    St("data_prep", "target_col", "TARGET_COL", "req"),
    St("data_prep", "save_data_splits", "SAVE_DATA_SPLITS", "req"),
    St("data_prep", "val_size", "VAL_SIZE", "req"),
    St("data_prep", "test_size", "TEST_SIZE", "req"),
    St("data_prep", "train_base_filename", "TRAIN_SET_FILENAME", "req"),
    St("data_prep", "validation_base_filename", "VAL_SET_FILENAME", "req"),
    St("data_prep", "test_base_filename", "TEST_SET_FILENAME", "req") >>

TrainAssigns == <<
    St("train", "model_name", "TRAIN_MODEL_NAME", "req"),
    St("train", "early_stopping", "TRAIN_EARLY_STOPPING", "req"),
    St("train", "patience", "TRAIN_EARLY_STOP_PATIENCE", "req"),
    St("train", "eval_only", "EVAL_ONLY", "req"),
    St("train", "lr_scheduler", "LR_SCHEDULER", "req"),
    St("train", "initial_lr", "INITIAL_LR", "req"),
    St("train", "lr_reduce_factor", "TRAIN_LR_REDUCE_FACTOR", "opt"),
    St("train", "lr_reduce_patience", "TRAIN_LR_REDUCE_PATIENCE", "opt"),
    St("train", "lr_min_delta", "TRAIN_LR_MIN_DELTA", "opt"),
    St("train", "run_nms", "RUN_TRAIN_NMS", "opt"),
    St("train", "nms_threshold", "TRAIN_NMS_THRESHOLD", "opt"),
    St("train", "score_threshold", "TRAIN_SCORE_THRESHOLD", "opt") >>

InferenceAssigns == <<
    St("inference", "model_name", "INFERENCE_MODEL_NAME", "req"),
    St("inference", "input_data_dir", "INFERENCE_INPUT_DIR", "req"),
    St("inference", "save_output_image", "INFERENCE_SAVE_OUTPUT", "req"),
    St("inference", "inference_output_path", "INFERENCE_OUTPUT_PATH", "req"),
    St("inference", "inference_mode", "INFERENCE_MODE", "req") >>

\* (variant: anchor_box_scales without its else branch)
EfficientDetAssignsNoElse == <<
    St("efficientdet", "train_annotations_path", "TRAIN_ANNOTATIONS_PATH", "opt"),
    St("efficientdet", "val_annotations_path", "VAL_ANNOTATIONS_PATH", "opt"),
    St("efficientdet", "test_annotations_path", "TEST_ANNOTATIONS_PATH", "opt"),
    St("efficientdet", "snapshot-path", "SAVED_MODEL_PATH", "opt"),
    St("efficientdet", "saved_best_model", "BEST_MODEL", "opt"),
    St("efficientdet", "anchor_box_scales", "ANCHOR_BOX_SCALES", "opt"),
    St("efficientdet", "anchor_box_ratios", "ANCHOR_BOX_RATIOS", "opt"),
    St("efficientdet", "train_backbone", "ED_TRAIN_BACKBONE", "opt"),
    St("efficientdet", "image_sizes", "ED_IMAGE_SIZES", "tuple"),
    St("efficientdet", "inference_backbone", "ED_INFERENCE_BACKBONE", "opt") >>

EfficientDetAssigns == <<
    St("efficientdet", "train_annotations_path", "TRAIN_ANNOTATIONS_PATH", "opt"),
    St("efficientdet", "val_annotations_path", "VAL_ANNOTATIONS_PATH", "opt"),
    St("efficientdet", "test_annotations_path", "TEST_ANNOTATIONS_PATH", "opt"),
    St("efficientdet", "snapshot-path", "SAVED_MODEL_PATH", "opt"),
    St("efficientdet", "saved_best_model", "BEST_MODEL", "opt"),
    St("efficientdet", "anchor_box_scales", "ANCHOR_BOX_SCALES", "none"),
    St("efficientdet", "anchor_box_ratios", "ANCHOR_BOX_RATIOS", "opt"),
    St("efficientdet", "train_backbone", "ED_TRAIN_BACKBONE", "opt"),
    St("efficientdet", "image_sizes", "ED_IMAGE_SIZES", "tuple"),
    St("efficientdet", "inference_backbone", "ED_INFERENCE_BACKBONE", "opt") >>

\* the body of __init__: the four section blocks in source order
Program == DataPrepAssigns \o TrainAssigns \o InferenceAssigns \o EfficientDetAssigns

\* sections __init__ tests with  '<section>' in params  (train_augmentation
\* is also tested, but its block only binds a local and assigns no constant)
Sections == {"data_prep", "train", "train_augmentation", "inference", "efficientdet"}

----------------------------------------------------------------------------
(* Values.  A config value is tagged with the section and key it was read   *)
(* from, so that a constant wired to the wrong key is visible.              *)

Value(sec, key, v) == [sec |-> sec, key |-> key, v |-> v, tup |-> FALSE]

\* Python's None
None == [sec |-> "", key |-> "None", v |-> 0, tup |-> FALSE]

\* tuple(x)
Tuple(x) == [x EXCEPT !.tup = TRUE]

\* params: the sections present, the keys absent from their sections (as
\* indices into Program), and the payload v carried by the present keys
HasSection(params, sec) == sec \in params.sections

HasKey(params, i) == i \notin params.missing

Lookup(params, i) == Value(Program[i].sec, Program[i].key, params.v)

NoParams == [sections |-> {}, missing |-> {}, v |-> 0]

NoError == [type |-> "none", at |-> 0]

Raised(type, i) == [type |-> type, at |-> i]

\* pconst:  const.NAME = value  binds an unbound name and raises
\* ConstantError on a bound one
IsBound(r, name) == name \in DOMAIN r

SetAttr(r, name, value) == (name :> value) @@ r

\* the right-hand side of statement i
Rhs(params, i) ==
    IF Program[i].kind = "tuple" THEN Tuple(Lookup(params, i))
    ELSE Lookup(params, i)

\* executes statements i.. of __init__ on registry r; stops at the first
\* exception, keeping what was bound before it
RECURSIVE RunFrom(_, _, _)
RunFrom(r, params, i) ==
    IF i > Len(Program) THEN [reg |-> r, err |-> NoError]
    ELSE LET st == Program[i] IN
        IF ~HasSection(params, st.sec) THEN RunFrom(r, params, i + 1)
        ELSE IF HasKey(params, i)
            THEN IF IsBound(r, st.name)
                 THEN [reg |-> r, err |-> Raised("ConstantError", i)]
                 ELSE RunFrom(SetAttr(r, st.name, Rhs(params, i)), params, i + 1)
        ELSE IF st.kind = "req"
            THEN [reg |-> r, err |-> Raised("KeyError", i)]
        ELSE IF st.kind = "none"
            THEN IF IsBound(r, st.name)
                 THEN [reg |-> r, err |-> Raised("ConstantError", i)]
                 ELSE RunFrom(SetAttr(r, st.name, None), params, i + 1)
        ELSE RunFrom(r, params, i + 1)

\* (variant: all-or-nothing initialisation)
PipelineConfigRunAtomic(r, params) ==
    LET res == RunFrom(r, params, 1) IN
    IF res.err.type = "none" THEN res ELSE [reg |-> r, err |-> res.err]

\* (variant: every initialisation starts from an empty registry)
PipelineConfigRunReset(r, params) == RunFrom(<<>>, params, 1)

PipelineConfigRun(r, params) == RunFrom(r, params, 1)

\* index in Program of the statement reading section[key]
Idx(sec, key) == CHOOSE i \in 1..Len(Program) : Program[i].sec = sec /\ Program[i].key = key

\* keys a call may lack (one key at most per call): required keys at the
\* start and in the middle of a section, an optional key of train, and
\* optional keys before, at and after anchor_box_scales
AbsentChoices == {
    Idx("data_prep", "raw_data_path"),
    Idx("train", "patience"),
    Idx("train", "lr_min_delta"),
    Idx("inference", "model_name"),
    Idx("efficientdet", "val_annotations_path"),
    Idx("efficientdet", "anchor_box_scales"),
    Idx("efficientdet", "image_sizes") }

\* sections a call may carry; train_augmentation assigns no constant
InputSections == Sections \ {"train_augmentation"}

ParamsSet(v) ==
    { [sections |-> S, missing |-> M, v |-> v] :
        S \in SUBSET InputSections,
        M \in {{}} \cup { {i} : i \in AbsentChoices } }

WellFormed(params) == \A i \in params.missing : Program[i].sec \in params.sections

\* PipelineConfig(params, logger); the values of the k-th call are tagged k
PipelineConfig(params) ==
    /\ cfgCalls < MaxConfigCalls
    /\ WellFormed(params)
    /\ LET res == PipelineConfigRun(reg, params) IN
        /\ reg' = res.reg
        /\ cfgErr' = res.err
    /\ cfgParams' = params
    /\ cfgCalls' = cfgCalls + 1
    /\ UNCHANGED <<objVars, callVars, files, annVars>>

\* no pipeline object, no call in progress
NoSelf == [model_node_type |-> "None", model_config |-> "None",
           draw_node_type |-> "None", draw_config |-> "None",
           model_node |-> "None", draw_node |-> "None"]

NoTable == [columns |-> <<>>, rows |-> <<>>]

\* a local name not yet assigned
Unbound == [unbound |-> TRUE]

NoArgs == [base_filename |-> <<>>, given |-> FALSE, annotations |-> <<>>]

AnnotIdle ==
    /\ annArgs = NoArgs
    /\ annExc = "none"
    /\ annLogged = FALSE

PipelineIdle ==
    /\ self = NoSelf
    /\ obtained = FALSE
    /\ lastOp = "none"
    /\ exc = "none"
    /\ nodeLog = <<>>
    /\ pc = "idle"
    /\ fn = "none"
    /\ image_list = <<>>
    /\ save_output_option = FALSE
    /\ output_path = "None"
    /\ idx = 1
    /\ pred_outputs = <<>>
    /\ pred_outputs_df = Unbound
    /\ result = NoTable
    /\ runLog = <<>>

InitConfig ==
    /\ reg = <<>>
    /\ cfgParams = NoParams
    /\ cfgErr = NoError
    /\ cfgCalls = 0
    /\ PipelineIdle
    /\ AnnotIdle
    /\ files = <<>>

NextConfig == \E params \in ParamsSet(cfgCalls + 1) : PipelineConfig(params)

SpecConfig == InitConfig /\ [][NextConfig]_vars

----------------------------------------------------------------------------
(* inference_pipeline.py : PeekingDuckPipeline *)

\* Python truthiness of a node type: None and "" are falsy
Truthy(t) == t \notin {"None", ""}

ModelNodeTypes == {"None", "", "effdet", "life3_effdet", "yolo"}

DrawNodeTypes == {"None", "draw_bbox", "draw_poses"}

Configs == {"None", "dict"}

\* constructor arguments: a node type left out (None) or empty comes with
\* the default config None; a type that is given comes with or without one
ModelArgs == { <<t, c>> \in ModelNodeTypes \X Configs : Truthy(t) \/ c = "None" }

DrawArgs == { <<t, c>> \in DrawNodeTypes \X Configs : Truthy(t) \/ c = "None" }

\* Node(**config): a config of None cannot be unpacked (TypeError)
NodeInit(cls, config) ==
    IF config = "None" THEN [node |-> "None", exc |-> "TypeError", log |-> <<>>]
    ELSE [node |-> cls, exc |-> "none", log |-> <<cls>>]

\* set_model_node: an `if` for "effdet", then a separate `if ... else` for
\* "life3_effdet" whose else branch raises
SetModelNode(s) ==
    LET n1 == IF s.model_node_type = "effdet"
              THEN NodeInit("efficientdet.Node", s.model_config)
              ELSE [node |-> s.model_node, exc |-> "none", log |-> <<>>]
        s1 == [s EXCEPT !.model_node = IF n1.exc = "none" THEN n1.node ELSE @]
    IN  IF n1.exc # "none" THEN [self |-> s, exc |-> n1.exc, log |-> n1.log]
        ELSE IF s1.model_node_type = "life3_effdet"
        THEN LET n2 == NodeInit("life3_efficientdet.Node", s1.model_config) IN
             [self |-> [s1 EXCEPT !.model_node = IF n2.exc = "none" THEN n2.node ELSE @],
              exc |-> n2.exc, log |-> n1.log \o n2.log]
        ELSE [self |-> s1, exc |-> "ValueError", log |-> n1.log]

\* (variant: no else branch)
SetDrawNodeNoRaise(s) ==
    IF s.draw_node_type = "draw_bbox"
    THEN LET n == NodeInit("bbox.Node", s.draw_config) IN
         [self |-> [s EXCEPT !.draw_node = IF n.exc = "none" THEN n.node ELSE @],
          exc |-> n.exc, log |-> n.log]
    ELSE [self |-> s, exc |-> "none", log |-> <<>>]

\* set_draw_node
SetDrawNode(s) ==
    IF s.draw_node_type = "draw_bbox"
    THEN LET n == NodeInit("bbox.Node", s.draw_config) IN
         [self |-> [s EXCEPT !.draw_node = IF n.exc = "none" THEN n.node ELSE @],
          exc |-> n.exc, log |-> n.log]
    ELSE [self |-> s, exc |-> "ValueError", log |-> <<>>]

\* __init__: store the arguments, then set the model node, then the draw node
PipelineInit(mt, mc, dt, dc) ==
    LET s0 == [model_node_type |-> mt, model_config |-> mc,
               draw_node_type |-> dt, draw_config |-> dc,
               model_node |-> "None", draw_node |-> "None"]
        r1 == IF Truthy(mt) THEN SetModelNode(s0)
              ELSE [self |-> s0, exc |-> "none", log |-> <<>>]
        r2 == IF Truthy(dt) THEN SetDrawNode(r1.self)
              ELSE [self |-> r1.self, exc |-> "none", log |-> <<>>]
    IN  IF r1.exc # "none" THEN r1
        ELSE [self |-> r2.self, exc |-> r2.exc, log |-> r1.log \o r2.log]

\* pkd = PeekingDuckPipeline(logger, model_node_type, model_config, ...);
\* the process builds one pipeline (and may try again after a failure)
Construct(mt, mc, dt, dc) ==
    /\ ~obtained
    /\ LET r == PipelineInit(mt, mc, dt, dc) IN
        /\ self' = r.self
        /\ exc' = r.exc
        /\ nodeLog' = r.log
        /\ obtained' = (r.exc = "none")
    /\ lastOp' = "__init__"
    /\ UNCHANGED <<callVars, cfgVars, files, annVars>>

\* pkd.set_model_node()
CallSetModelNode ==
    /\ obtained
    /\ pc # "loop"
    /\ LET r == SetModelNode(self) IN
        /\ self' = r.self
        /\ exc' = r.exc
        /\ nodeLog' = r.log
    /\ lastOp' = "set_model_node"
    /\ UNCHANGED <<obtained, callVars, cfgVars, files, annVars>>

\* pkd.set_draw_node()
CallSetDrawNode ==
    /\ obtained
    /\ pc # "loop"
    /\ LET r == SetDrawNode(self) IN
        /\ self' = r.self
        /\ exc' = r.exc
        /\ nodeLog' = r.log
    /\ lastOp' = "set_draw_node"
    /\ UNCHANGED <<obtained, callVars, cfgVars, files, annVars>>

----------------------------------------------------------------------------
(* inference_pipeline.py : predict and predict_custom *)

Paths == {"a.jpg", "b.jpg"}

OutputPaths == {"None", "output.csv"}

\* what model_node.run may return: the detections of an image are the
\* node's business, so any of these for any input
RunOutputs == { [bboxes |-> "no_boxes", bbox_labels |-> "no_labels"],
                [bboxes |-> "boxes_1", bbox_labels |-> "labels_1"] }

SeqsUpTo(S, n) == UNION { [1..k -> S] : k \in 0..n }

\* the image handed to model_node.run.  predict_custom: cv2.imread(path)
\* converted BGR2RGB.  predict: the first image of the i-th batch of the
\* dataset (batches of one image, in file_paths order) converted RGB2BGR.
RunInput(f, path) ==
    IF f = "predict_custom"
    THEN [img |-> [pixels |-> path, order |-> "RGB"]]
    ELSE [img |-> [pixels |-> path, order |-> "BGR"]]

\* the dict built from the node's output
PredOutput(out, path) ==
    [bboxes |-> out.bboxes, bbox_labels |-> out.bbox_labels, img_path |-> path]

\* pd.DataFrame(list of dicts): columns in key order, one row per dict
DataFrame(recs) ==
    IF recs = <<>> THEN NoTable
    ELSE [columns |-> <<"bboxes", "bbox_labels", "img_path">>,
          rows |-> [i \in 1..Len(recs) |->
                      <<recs[i].bboxes, recs[i].bbox_labels, recs[i].img_path>>]]

\* str() of a cell, as to_csv writes it
Str(x) == <<"str", x>>

\* df.to_csv(index=False): a header line, then one line per row
ToCsv(df) ==
    <<df.columns>> \o [i \in 1..Len(df.rows) |->
                         [j \in 1..Len(df.rows[i]) |-> Str(df.rows[i][j])]]

\* (variant: the file is never written)
SavePredictOutputSkip(fs, output_df, path) == fs

\* save_predict_output: output_df.to_csv(output_path, ...) replaces the file;
\* with a path of None to_csv only returns the text
SavePredictOutput(fs, output_df, path) ==
    IF path = "None" THEN fs
    ELSE (path :> ToCsv(output_df)) @@ fs

\* (variant: the new record is put first)
AccumulatePrepend(outs, rec) == <<rec>> \o outs

\* pred_outputs.append(pred_output)
Accumulate(outs, rec) == Append(outs, rec)

\* entry of predict(dataset, ...) / predict_custom(image_list, ...); the
\* process makes one such call on its pipeline
PredictCall(f, images, save, path) ==
    /\ obtained
    /\ pc = "idle"
    /\ pc' = "loop"
    /\ fn' = f
    /\ image_list' = images
    /\ save_output_option' = save
    /\ output_path' = path
    /\ idx' = 1
    /\ pred_outputs' = <<>>
    /\ pred_outputs_df' = Unbound
    /\ result' = NoTable
    /\ runLog' = <<>>
    /\ lastOp' = f
    /\ exc' = "none"
    /\ nodeLog' = <<>>
    /\ UNCHANGED <<self, obtained, cfgVars, files, annVars>>

\* one iteration of the for loop
PredictIter ==
    /\ pc = "loop"
    /\ idx <= Len(image_list)
    /\ IF self.model_node = "None"
       THEN \* None has no attribute run
            /\ pc' = "raised"
            /\ exc' = "AttributeError"
            /\ UNCHANGED <<idx, pred_outputs, pred_outputs_df, runLog, files>>
       ELSE \E out \in RunOutputs :
            LET path == image_list[idx]
                eff_det_input == RunInput(fn, path)
                outs == Accumulate(pred_outputs, PredOutput(out, path))
                df == DataFrame(outs)
            IN  /\ runLog' = Append(runLog, [input |-> eff_det_input, output |-> out])
                /\ pred_outputs' = outs
                /\ pred_outputs_df' = df
                /\ files' = IF save_output_option
                            THEN SavePredictOutput(files, df, output_path)
                            ELSE files
                /\ idx' = idx + 1
                /\ UNCHANGED <<pc, exc>>
    /\ UNCHANGED <<fn, image_list, save_output_option, output_path, result>>
    /\ UNCHANGED <<self, obtained, lastOp, nodeLog, cfgVars, annVars>>

\* return pred_outputs_df : the name is bound only inside the loop
PredictReturn ==
    /\ pc = "loop"
    /\ idx > Len(image_list)
    /\ IF pred_outputs_df = Unbound
       THEN /\ pc' = "raised"
            /\ exc' = "UnboundLocalError"
            /\ UNCHANGED result
       ELSE /\ pc' = "returned"
            /\ result' = pred_outputs_df
            /\ UNCHANGED exc
    /\ UNCHANGED <<fn, image_list, save_output_option, output_path, idx,
                   pred_outputs, pred_outputs_df, runLog>>
    /\ UNCHANGED <<self, obtained, lastOp, nodeLog, cfgVars, files, annVars>>

\* what an earlier run may have left at the output path
StaleCsv == << <<"bboxes", "bbox_labels", "img_path">>,
               <<Str("boxes_1"), Str("labels_1"), Str("old.jpg")>> >>

InitPipeline ==
    /\ reg = <<>>
    /\ cfgParams = NoParams
    /\ cfgErr = NoError
    /\ cfgCalls = 0
    /\ PipelineIdle
    /\ AnnotIdle
    /\ files \in {<<>>, [p \in {"output.csv"} |-> StaleCsv]}

NextPipeline ==
    \/ \E m \in ModelArgs, d \in DrawArgs : Construct(m[1], m[2], d[1], d[2])
    \/ CallSetModelNode
    \/ CallSetDrawNode
    \/ \E f \in {"predict", "predict_custom"}, images \in SeqsUpTo(Paths, MaxImages),
          save \in BOOLEAN, path \in OutputPaths :
          PredictCall(f, images, save, path)
    \/ PredictIter
    \/ PredictReturn

SpecPipeline == InitPipeline /\ [][NextPipeline]_vars

----------------------------------------------------------------------------
(* preprocess_efficientdet.py : EfficientDetPipeline.generate_annotations *)

\* annotation records.  Coordinates are floats, held in tenths (15 is 1.5);
\* the second record has a negative coordinate and x_min > x_max.
AnnotationRecords == {
    [file_name |-> "a.jpg", category_name |-> "cell",
     bbox_x_min |-> 15, bbox_y_min |-> 20, bbox_x_max |-> 109, bbox_y_max |-> 87],
    [file_name |-> "b.jpg", category_name |-> "debris",
     bbox_x_min |-> 57, bbox_y_min |-> -15, bbox_x_max |-> 32, bbox_y_max |-> 40] }

DataFrames == SeqsUpTo(AnnotationRecords, MaxRows)

\* base_filename, as its '.'-separated pieces
BaseFilenames == { <<"train", "csv">>, <<"val", "v2", "csv">> }

\* int(x): truncates towards zero
ToInt(t) == IF t >= 0 THEN t \div 10 ELSE -((-t) \div 10)

\* Path(const.INTERIM_DATA_PATH, const.COMBINED_ANNOTATIONS_FILENAME)
AnnotFilepath(r) ==
    [dir |-> r["INTERIM_DATA_PATH"], file |-> r["COMBINED_ANNOTATIONS_FILENAME"],
     stem |-> <<>>, backbone |-> None]

\* base_filename.split('.')[0], as the pieces it keeps
Stem(base_filename) == <<base_filename[1]>>

\* PurePath(const.PROCESSED_DATA_PATH,
\*          f"{stem}_efficientdet_b{const.ED_TRAIN_BACKBONE}.csv")
OutputFilepath(r, base_filename) ==
    [dir |-> r["PROCESSED_DATA_PATH"], file |-> None,
     stem |-> Stem(base_filename), backbone |-> r["ED_TRAIN_BACKBONE"]]

\* Path(const.RAW_DATA_PATH, file_name)
ImageFilePath(r, file_name) == [dir |-> r["RAW_DATA_PATH"], name |-> file_name]

\* the combined annotations file as written by the earlier stage: a header
\* line, then index, file_name, category_name and the four coordinates
AnnotationsCsv(df) ==
    << <<"", "file_name", "category_name",
         "bbox_x_min", "bbox_y_min", "bbox_x_max", "bbox_y_max">> >>
    \o [i \in 1..Len(df) |->
          <<i - 1, df[i].file_name, df[i].category_name,
            df[i].bbox_x_min, df[i].bbox_y_min, df[i].bbox_x_max, df[i].bbox_y_max>>]

\* pd.read_csv(path, index_col=0): the first column becomes the index
ReadCsv(csv) ==
    [i \in 1..(Len(csv) - 1) |->
        [file_name |-> csv[i + 1][2], category_name |-> csv[i + 1][3],
         bbox_x_min |-> csv[i + 1][4], bbox_y_min |-> csv[i + 1][5],
         bbox_x_max |-> csv[i + 1][6], bbox_y_max |-> csv[i + 1][7]]]

\* one element of data_value
DataValue(r, annotation) ==
    << ImageFilePath(r, annotation.file_name),
       ToInt(annotation.bbox_x_min), ToInt(annotation.bbox_y_min),
       ToInt(annotation.bbox_x_max), ToInt(annotation.bbox_y_max),
       annotation.category_name >>

\* (variant: rows whose box is not ordered are left out)
RECURSIVE DataValuesChecked(_, _)
DataValuesChecked(r, df) ==
    IF df = <<>> THEN <<>>
    ELSE LET a == Head(df) IN
         (IF a.bbox_x_min < a.bbox_x_max /\ a.bbox_y_min < a.bbox_y_max
          THEN <<DataValue(r, a)>> ELSE <<>>) \o DataValuesChecked(r, Tail(df))

\* the for loop over annotations.iterrows()
RECURSIVE DataValues(_, _)
DataValues(r, df) ==
    IF df = <<>> THEN <<>>
    ELSE <<DataValue(r, Head(df))>> \o DataValues(r, Tail(df))

\* csv_writer.writerow(data) for each element, into a file opened with "w"
WriteRows(data_value) ==
    [i \in 1..Len(data_value) |->
        [j \in 1..Len(data_value[i]) |-> Str(data_value[i][j])]]

\* reading an unregistered constant raises AttributeError
Registered(r, names) == names \subseteq DOMAIN r

\* (variant: an empty output file is written when the annotations are missing)
GenerateAnnotationsRunAlways(r, fs, base_filename, given, annotations) ==
    LET annot_filepath == AnnotFilepath(r)
        df == IF given THEN annotations
              ELSE IF annot_filepath \in DOMAIN fs THEN ReadCsv(fs[annot_filepath])
              ELSE <<>>
    IN  IF ~Registered(r, {"ED_TRAIN_BACKBONE"})
        THEN [files |-> fs, exc |-> "AttributeError", logged |-> FALSE]
        ELSE [files |-> (OutputFilepath(r, base_filename) :> WriteRows(DataValues(r, df))) @@ fs,
              exc |-> "none",
              logged |-> ~given /\ annot_filepath \notin DOMAIN fs]

\* generate_annotations(logger, base_filename, annotations)
GenerateAnnotationsRun(r, fs, base_filename, given, annotations) ==
    IF ~Registered(r, {"INTERIM_DATA_PATH", "COMBINED_ANNOTATIONS_FILENAME"})
    THEN [files |-> fs, exc |-> "AttributeError", logged |-> FALSE]
    ELSE LET annot_filepath == AnnotFilepath(r) IN
    IF ~given /\ annot_filepath \notin DOMAIN fs
    THEN [files |-> fs, exc |-> "none", logged |-> TRUE]
    ELSE LET df == IF given THEN annotations ELSE ReadCsv(fs[annot_filepath]) IN
    IF df # <<>> /\ ~Registered(r, {"RAW_DATA_PATH"})
    THEN [files |-> fs, exc |-> "AttributeError", logged |-> FALSE]
    ELSE LET data_value == DataValues(r, df) IN
    IF ~Registered(r, {"PROCESSED_DATA_PATH", "ED_TRAIN_BACKBONE"})
    THEN [files |-> fs, exc |-> "AttributeError", logged |-> FALSE]
    ELSE [files |-> (OutputFilepath(r, base_filename) :> WriteRows(data_value)) @@ fs,
          exc |-> "none", logged |-> FALSE]

GenerateAnnotations(base_filename, given, annotations) ==
    /\ LET res == GenerateAnnotationsRun(reg, files, base_filename, given, annotations) IN
        /\ files' = res.files
        /\ annExc' = res.exc
        /\ annLogged' = res.logged
    /\ annArgs' = [base_filename |-> base_filename, given |-> given,
                   annotations |-> annotations]
    /\ UNCHANGED <<cfgVars, objVars, callVars>>

\* the registry when the data-preparation stage runs: PipelineConfig has
\* loaded every section, with or without the optional key train_backbone
AnnotParams ==
    { [sections |-> InputSections, missing |-> M, v |-> 1] :
        M \in { {}, {Idx("efficientdet", "train_backbone")} } }

InitAnnot ==
    /\ \E params \in AnnotParams :
          /\ reg = PipelineConfigRun(<<>>, params).reg
          /\ cfgParams = params
          /\ \E df \in {<<>>} \cup { d \in DataFrames : Len(d) = MaxRows } :
                files \in { <<>>, (AnnotFilepath(reg) :> AnnotationsCsv(df)) }
    /\ cfgErr = NoError
    /\ cfgCalls = 1
    /\ PipelineIdle
    /\ AnnotIdle

NextAnnot ==
    \E base_filename \in BaseFilenames :
        \/ GenerateAnnotations(base_filename, FALSE, <<>>)
        \/ \E df \in DataFrames : GenerateAnnotations(base_filename, TRUE, df)

SpecAnnot == InitAnnot /\ [][NextAnnot]_vars

----------------------------------------------------------------------------
(* Properties of the constants registry *)

SectionOf(name) == Program[CHOOSE i \in 1..Len(Program) : Program[i].name = name].sec

\* statement i assigns its constant when reached
Assigns(params, i) ==
    /\ HasSection(params, Program[i].sec)
    /\ HasKey(params, i) \/ Program[i].kind = "none"

\* statement i raises KeyError when reached
MissingRequired(params, i) ==
    /\ HasSection(params, Program[i].sec)
    /\ ~HasKey(params, i)
    /\ Program[i].kind = "req"

\* the value statement i binds
Bound(params, i) ==
    IF ~HasKey(params, i) THEN None
    ELSE [sec |-> Program[i].sec, key |-> Program[i].key, v |-> params.v,
          tup |-> Program[i].key = "image_sizes"]

\* C1: once a constant is registered no PipelineConfig call changes or removes
\* it, and a call whose params carry a section of which a constant is already
\* registered raises and leaves every registered value as it was.
C1_RegistryImmutable ==
    [][ /\ \A n \in DOMAIN reg : n \in DOMAIN reg' /\ reg'[n] = reg[n]
        /\ (\E n \in DOMAIN reg : SectionOf(n) \in cfgParams'.sections)
              => cfgErr'.type # "none" ]_vars

C1_Witness ==
    /\ cfgErr.type = "ConstantError"
    /\ "data_prep" \in cfgParams.sections
    /\ "RAW_DATA_PATH" \in DOMAIN reg
    /\ reg["RAW_DATA_PATH"].v # cfgParams.v

\* C10: initialisation runs the sections in the order data_prep, train,
\* inference, efficientdet and is not atomic: when the first statement to
\* fail is a required key missing from its section, the call raises KeyError
\* at that statement, every constant assigned before it is registered with
\* its value, no constant from that statement on is newly registered, and a
\* later call carrying a section of a constant registered so far raises.
C10_SequentialNotAtomic ==
    [][ \A i \in 1..Len(Program) :
          ( /\ MissingRequired(cfgParams', i)
            /\ \A j \in 1..(i - 1) :
                  /\ ~MissingRequired(cfgParams', j)
                  /\ ~(Assigns(cfgParams', j) /\ Program[j].name \in DOMAIN reg) )
          => /\ cfgErr' = [type |-> "KeyError", at |-> i]
             /\ \A j \in 1..(i - 1) : Assigns(cfgParams', j) =>
                    /\ Program[j].name \in DOMAIN reg'
                    /\ reg'[Program[j].name] = Bound(cfgParams', j)
             /\ \A j \in i..Len(Program) :
                    Program[j].name \in DOMAIN reg' <=> Program[j].name \in DOMAIN reg
      ]_vars

C10_Witness ==
    /\ cfgErr = [type |-> "KeyError", at |-> Idx("train", "patience")]
    /\ "data_prep" \in cfgParams.sections
    /\ {"TEST_SET_FILENAME", "TRAIN_EARLY_STOPPING"} \subseteq DOMAIN reg
    /\ "EVAL_ONLY" \notin DOMAIN reg

----------------------------------------------------------------------------
(* Properties of PeekingDuckPipeline *)

SupportedModelNodeTypes == {"effdet", "life3_effdet"}

\* set_model_node was the last thing to run on the object
RanSetModelNodeLast ==
    \/ lastOp = "set_model_node"
    \/ lastOp = "__init__" /\ Truthy(self.model_node_type) /\ ~Truthy(self.draw_node_type)

\* C2: set_model_node (given a config) leaves model_node set and raises
\* nothing for each of "effdet" and "life3_effdet", and for every other type
\* raises ValueError and leaves model_node None.
C2_SetModelNodeClaim ==
    (RanSetModelNodeLast /\ self.model_config = "dict") =>
        IF self.model_node_type \in SupportedModelNodeTypes
        THEN self.model_node # "None" /\ exc = "none"
        ELSE self.model_node = "None" /\ exc = "ValueError"

IsModelNode(n) == n \in {"efficientdet.Node", "life3_efficientdet.Node"}

\* C9: a pipeline whose constructor returned normally has a model node
\* exactly when a truthy model_node_type was given and a draw node exactly
\* when a truthy draw_node_type was given, and its types are supported ones;
\* the constructor instantiates the model node before the draw node, does
\* not reach the draw node when the model setter raises, and yields no
\* object when a setter raises; set_draw_node sets draw_node for "draw_bbox"
\* only and raises ValueError for any other type.
C9_ConstructedNodes ==
    /\ obtained =>
        /\ self.model_node # "None" <=> Truthy(self.model_node_type)
        /\ self.draw_node # "None" <=> Truthy(self.draw_node_type)
        /\ Truthy(self.model_node_type) => self.model_node_type \in SupportedModelNodeTypes
        /\ Truthy(self.draw_node_type) => self.draw_node_type = "draw_bbox"
    /\ lastOp = "__init__" =>
        /\ obtained <=> exc = "none"
        /\ \A i \in 1..Len(nodeLog) :
              nodeLog[i] = "bbox.Node" =>
                 /\ i = Len(nodeLog)
                 /\ Truthy(self.model_node_type) => (i = 2 /\ IsModelNode(nodeLog[1]))
                 /\ self.model_node # "None" <=> Truthy(self.model_node_type)
        /\ (Truthy(self.model_node_type)
              /\ self.model_node_type \notin SupportedModelNodeTypes)
             => (exc = "ValueError" /\ nodeLog = <<>> /\ self.draw_node = "None")
        /\ (Truthy(self.draw_node_type) /\ self.draw_node_type # "draw_bbox")
             => (exc # "none" /\ self.draw_node = "None")
        /\ (exc = "none" /\ Truthy(self.draw_node_type) /\ Truthy(self.model_node_type))
             => Len(nodeLog) = 2
    /\ lastOp = "set_draw_node" =>
        IF self.draw_node_type = "draw_bbox"
        THEN self.draw_node = "bbox.Node" /\ exc = "none"
        ELSE self.draw_node = "None" /\ exc = "ValueError"

C9_Witness ==
    /\ obtained
    /\ lastOp = "__init__"
    /\ nodeLog = <<"life3_efficientdet.Node", "bbox.Node">>
    /\ self.model_node = "life3_efficientdet.Node"
    /\ self.draw_node = "bbox.Node"

Header == <<"bboxes", "bbox_labels", "img_path">>

HoldsRecords(csv, recs) ==
    /\ Len(csv) = 1 + Len(recs)
    /\ csv[1] = Header
    /\ \A i \in 1..Len(recs) :
          csv[i + 1] = <<Str(recs[i].bboxes), Str(recs[i].bbox_labels), Str(recs[i].img_path)>>

IsPrefix(s, t) == Len(s) <= Len(t) /\ \A i \in 1..Len(s) : s[i] = t[i]

C8_EmptyInputClaim ==
    (pc \in {"returned", "raised"} /\ image_list = <<>>)
        => (pc = "returned" /\ exc = "none" /\ result.rows = <<>>)

----------------------------------------------------------------------------
(* Properties of generate_annotations *)

\* n is t (in tenths) with its fractional part dropped
IsTruncationOf(n, t) ==
    /\ t >= 0 => (n * 10 <= t /\ t < (n + 1) * 10)
    /\ t < 0 => (n * 10 >= t /\ t > (n - 1) * 10)

\* the annotations a call works on: its argument, else the combined file
AnnotationsOf(args, r, fs) ==
    IF args.given THEN args.annotations ELSE ReadCsv(fs[AnnotFilepath(r)])

ExpectedOutputPath(args, r) ==
    [dir |-> r["PROCESSED_DATA_PATH"], file |-> None,
     stem |-> <<args.base_filename[1]>>, backbone |-> r["ED_TRAIN_BACKBONE"]]

\* C5: a generate_annotations call that has annotations and returns leaves
\* at <PROCESSED_DATA_PATH>/<first piece of base_filename>_efficientdet_b
\* <ED_TRAIN_BACKBONE>.csv exactly one row per annotation record, in record
\* order, row i being (RAW_DATA_PATH/file_name, x1, y1, x2, y2, class_name)
\* of record i with the coordinates truncated to integers, whether or not
\* x1 < x2 and y1 < y2; no other file changes.
C5_OneRowPerAnnotation ==
    [][ (annExc' = "none" /\ ~annLogged') =>
          LET df == AnnotationsOf(annArgs', reg, files)
              out == ExpectedOutputPath(annArgs', reg)
          IN  /\ out \in DOMAIN files'
              /\ Len(files'[out]) = Len(df)
              /\ \A i \in 1..Len(df) :
                    LET row == files'[out][i] IN
                    /\ Len(row) = 6
                    /\ row[1] = Str([dir |-> reg["RAW_DATA_PATH"], name |-> df[i].file_name])
                    /\ IsTruncationOf(row[2][2], df[i].bbox_x_min)
                    /\ IsTruncationOf(row[3][2], df[i].bbox_y_min)
                    /\ IsTruncationOf(row[4][2], df[i].bbox_x_max)
                    /\ IsTruncationOf(row[5][2], df[i].bbox_y_max)
                    /\ row[6] = Str(df[i].category_name)
              /\ \A q \in DOMAIN files' \ {out} : q \in DOMAIN files /\ files'[q] = files[q]
      ]_vars

C5_Witness ==
    /\ annExc = "none"
    /\ ~annLogged
    /\ Len(annArgs.annotations) = 2
    /\ annArgs.annotations[1].bbox_x_min > annArgs.annotations[1].bbox_x_max
    /\ annArgs.annotations[2].bbox_x_min < annArgs.annotations[2].bbox_x_max
    /\ annArgs.base_filename = <<"val", "v2", "csv">>
    /\ Len(files[ExpectedOutputPath(annArgs, reg)]) = 2

\* C6: a call without annotations while the combined annotations file does
\* not exist logs the error and returns without raising and without
\* touching any file; the file system changes only in a call that was given
\* annotations or found the combined file.
C6_MissingFileLogsAndReturns ==
    [][ /\ (~annArgs'.given /\ AnnotFilepath(reg) \notin DOMAIN files)
             => (annExc' = "none" /\ annLogged' /\ files' = files)
        /\ files' # files => (annArgs'.given \/ AnnotFilepath(reg) \in DOMAIN files)
        /\ annLogged' => (~annArgs'.given /\ AnnotFilepath(reg) \notin DOMAIN files)
      ]_vars

C6_Witness ==
    /\ annLogged
    /\ annExc = "none"
    /\ ~annArgs.given
    /\ "ED_TRAIN_BACKBONE" \in DOMAIN reg
    /\ ExpectedOutputPath(annArgs, reg) \in DOMAIN files
    /\ files[ExpectedOutputPath(annArgs, reg)] # <<>>

====
